---- MODULE Spec2Model ----
(***************************************************************************)
(* A model of the documentation generator scripts/generate_docs.py:        *)
(* parse_doc_blocks step by step, format_signature_html and make_anchor on  *)
(* every text of a bounded alphabet, main (scan, group, render) and the     *)
(* search filter of the generated page; and of the benchmark harness        *)
(* bench/run_benchmarks_ci.py against its table.                            *)
(*                                                                         *)
(* Strings are sequences of symbols.  A symbol is a TLA+ string standing   *)
(* for exactly that text: one character ("/", " ", "(", "f"), or a whole   *)
(* literal of the source that the code only ever handles as a unit         *)
(* ("@builtin", "Math").  No symbol of the input alphabets is a substring  *)
(* of, or overlaps, another one inside a text, so Python's substring       *)
(* operations (in, find, replace, startswith, strip) on the text and the   *)
(* operators below on the symbol sequence agree.                           *)
(***************************************************************************)
EXTENDS Integers, Sequences, FiniteSets, TLC

VARIABLES
    pc,           \* position of the running function
    \* parse_doc_blocks
    source_text,  \* its argument
    lines,        \* source_text.split("\n")
    i,            \* the scan index (0-based, as in the code)
    entries,      \* the entries collected (also scan_source_files' list)
    entry,        \* the DocEntry of the block being read
    desc_lines,   \* the description buffer of that block
    visits,       \* history, per line: what an iteration took it as (0: a line
                  \* outside a block, b: a line of the b-th block), in order
    \* format_signature_html and make_anchor
    sig,          \* format_signature_html: its argument
    card,         \* the card generate_html renders for an entry of that signature
    sig_match,    \* format_signature_html: the groups of its match (m)
    anchor_in,    \* make_anchor: its argument
    anchor_out,   \* make_anchor(anchor_in)
    anchor_again, \* make_anchor(anchor_out)
    \* main: scan_source_files, group_by_category, generate_html
    src_dir,      \* the source directory: whether it exists, and its *.c files
    writable,     \* whether the output file can be written
    c_files,      \* scan_source_files: sorted(src_path.glob("*.c"))
    file_idx,     \* scan_source_files: how many of c_files are done
    warnings,     \* what was written to stderr
    groups,       \* main: group_by_category(entries)
    html,         \* generate_html: the document written to output_path
    totals,       \* generate_html: the pair it returns
    \* the search filter of the generated page, in the browser
    query,        \* the value of the search input
    classes,      \* per category block and card: the card's class list
    display,      \* per category block: its style.display
    ever_hidden,  \* history: some input event has hidden a card
    \* run_benchmarks_ci.py
    store,        \* the committed rows of the table lattice_benchmarks
    pending,      \* the rows inserted by the open transaction
    bench_files,  \* the benchmark files that exist in BENCH_DIR
    runs,         \* how many runs of the harness were started
    commit,       \* main: the commit hash of the run
    version,      \* main: the version of the run
    b_idx,        \* main: how many of BENCHMARKS the loop has done
    inserted,     \* main: its counter of inserted rows
    skipped       \* main: its counter of skipped rows

parseVars == <<source_text, lines, i, entry, desc_lines, visits>>
pureVars  == <<sig, card, sig_match, anchor_in, anchor_out, anchor_again>>
mainVars  == <<src_dir, writable, c_files, file_idx, warnings, groups, html, totals>>

pageVars  == <<query, classes, display, ever_hidden>>
benchVars == <<store, pending, bench_files, runs, commit, version, b_idx, inserted, skipped>>

vars == <<pc, entries, parseVars, pureVars, mainVars, pageVars, benchVars>>

---------------------------------------------------------------------------
(* Bounds of the model.                                                    *)

MaxLines == 4
MaxFiles == 2
MaxSigLen == 5
MaxAnchorLen == 4

---------------------------------------------------------------------------
(* Python string operations on symbol sequences.                           *)

Whitespace == {" "}

\* s[n:]
Drop(s, n) == IF n >= Len(s) THEN <<>> ELSE SubSeq(s, n + 1, Len(s))

\* s[:n]
Take(s, n) == IF n >= Len(s) THEN s ELSE SubSeq(s, 1, n)

\* s.startswith(p)
StartsWith(s, p) == Len(s) >= Len(p) /\ SubSeq(s, 1, Len(p)) = p

\* s.find(p): the 0-based index of the first occurrence, or -1
Find(s, p) ==
    LET hits == {k \in 0..(Len(s) - Len(p)) : SubSeq(s, k + 1, k + Len(p)) = p}
    IN  IF hits = {} THEN -1 ELSE CHOOSE k \in hits : \A m \in hits : k <= m

\* p in s
Contains(s, p) == Find(s, p) >= 0

\* s.lstrip(), s.rstrip(), s.strip()
RECURSIVE LStrip(_)
LStrip(s) == IF s # <<>> /\ Head(s) \in Whitespace THEN LStrip(Tail(s)) ELSE s

RECURSIVE RStrip(_)
RStrip(s) ==
    IF s # <<>> /\ s[Len(s)] \in Whitespace THEN RStrip(SubSeq(s, 1, Len(s) - 1)) ELSE s

Strip(s) == RStrip(LStrip(s))

\* s.replace(p, ""): every occurrence of p removed, left to right
RECURSIVE Remove(_, _)
Remove(s, p) ==
    IF s = <<>> THEN <<>>
    ELSE IF StartsWith(s, p) THEN Remove(Drop(s, Len(p)), p)
    ELSE <<Head(s)>> \o Remove(Tail(s), p)

\* " ".join(parts)
RECURSIVE JoinSpace(_)
JoinSpace(parts) ==
    IF parts = <<>> THEN <<>>
    ELSE IF Len(parts) = 1 THEN parts[1]
    ELSE parts[1] \o <<" ">> \o JoinSpace(Tail(parts))

\* text.split("\n"): never empty, "" splits to [""]
RECURSIVE Split(_)
Split(text) ==
    LET k == Find(text, <<"\n">>)
    IN  IF k < 0 THEN <<text>> ELSE <<Take(text, k)>> \o Split(Drop(text, k + 1))

---------------------------------------------------------------------------
(* DocEntry and parse_doc_blocks.                                          *)

Marker      == <<"/", "/", "/">>
TagBuiltin  == <<"@builtin">>
TagMethod   == <<"@method">>
TagCategory == <<"@category">>
TagExample  == <<"@example">>

\* DocEntry.__init__
DocEntry ==
    [kind |-> "", signature |-> <<>>, name |-> <<>>, category |-> <<>>,
     description |-> <<>>, examples |-> <<>>]

\* A variant of IsMarked under which a tag line ends the block being read.
IsMarkedNoTag(line) ==
    StartsWith(line, Marker) /\ ~(Contains(line, TagBuiltin) \/ Contains(line, TagMethod))

\* A variant of IsMarked under which a blank line does not end a block.
IsMarkedOrBlank(line) == line = <<>> \/ StartsWith(line, Marker)

\* line 101 (negated): the stripped line is a marked comment line
IsMarked(line) == StartsWith(line, Marker)

\* line 77: the stripped line starts a doc block
IsBlockStart(line) ==
    StartsWith(line, Marker) /\ (Contains(line, TagBuiltin) \/ Contains(line, TagMethod))

\* lines 82-87: kind and signature from the tag line's payload
TagOf(content) ==
    IF Contains(content, TagBuiltin) THEN "builtin"
    ELSE IF Contains(content, TagMethod) THEN "method"
    ELSE ""

SignatureOf(content) ==
    IF Contains(content, TagBuiltin) THEN Strip(Remove(content, TagBuiltin))
    ELSE IF Contains(content, TagMethod) THEN Strip(Remove(content, TagMethod))
    ELSE <<>>

\* A variant of NameOf that cuts at the last "(" and not at the first.
NameOfLastParen(signature) ==
    LET hits == {k \in 1..Len(signature) : signature[k] = "("}
    IN  IF hits = {} THEN Strip(signature)
        ELSE Strip(Take(signature, (CHOOSE k \in hits : \A m \in hits : m <= k) - 1))

\* lines 89-94: the name is the signature before its first "("
NameOf(signature) ==
    LET paren_idx == Find(signature, <<"(">>)
    IN  IF paren_idx >= 0 THEN Strip(Take(signature, paren_idx)) ELSE Strip(signature)

\* lines 78-94: the entry made from a stripped tag line
BeginEntry(line) ==
    LET content == Strip(Drop(line, 3))
    IN  [DocEntry EXCEPT !.kind = TagOf(content),
                         !.signature = SignatureOf(content),
                         !.name = NameOf(SignatureOf(content))]

\* lines 104-114: one marked line of the block, applied to the entry and the buffer
ConsumeLine(st, next_line) ==
    LET content == Strip(Drop(next_line, 3))
    IN  IF StartsWith(content, TagCategory)
        THEN [st EXCEPT !.entry.category = Strip(Remove(content, TagCategory))]
        ELSE IF StartsWith(content, TagExample)
        THEN [st EXCEPT !.entry.examples =
                            Append(@, Strip(Remove(content, TagExample)))]
        ELSE IF content # <<>>
        THEN [st EXCEPT !.desc = Append(@, content)]
        ELSE st

\* line 117: the finished entry
FinishEntry(st) == [st.entry EXCEPT !.description = JoinSpace(st.desc)]

\* lines 99-115: the inner loop from index k; gives the index it stops at and the state
RECURSIVE ConsumeBlock(_, _, _)
ConsumeBlock(ls, k, st) ==
    IF k < Len(ls) /\ IsMarked(Strip(ls[k + 1]))
    THEN ConsumeBlock(ls, k + 1, ConsumeLine(st, Strip(ls[k + 1])))
    ELSE [i |-> k, st |-> st]

\* lines 73-120: the outer loop from index k with the entries found so far
RECURSIVE ScanFrom(_, _, _)
ScanFrom(ls, k, acc) ==
    IF k >= Len(ls) THEN acc
    ELSE IF IsBlockStart(Strip(ls[k + 1]))
    THEN LET r == ConsumeBlock(ls, k + 1,
                               [entry |-> BeginEntry(Strip(ls[k + 1])), desc |-> <<>>])
         IN  ScanFrom(ls, r.i, Append(acc, FinishEntry(r.st)))
    ELSE ScanFrom(ls, k + 1, acc)

\* lines 67-122
parse_doc_blocks(text) == ScanFrom(Split(text), 0, <<>>)

---------------------------------------------------------------------------
(* escape, format_signature_html, format_example_html, make_anchor.        *)

\* html.escape(text, quote=True), symbol by symbol
EscapeSym(c) ==
    CASE c = "&"  -> "&amp;"
      [] c = "<"  -> "&lt;"
      [] c = ">"  -> "&gt;"
      [] c = "->" -> "-&gt;"
      [] c = "\"" -> "&quot;"
      [] c = "'"  -> "&#x27;"
      [] OTHER    -> c

escape(text) == [k \in 1..Len(text) |-> EscapeSym(text[k])]

\* str.lower(), symbol by symbol
LowerSym(c) ==
    CASE c = "A" -> "a"
      [] c = "T" -> "t"
      [] OTHER   -> c

Lower(text) == [k \in 1..Len(text) |-> LowerSym(text[k])]

\* The symbols of the model's alphabets that the regex class \w matches.
WordSyms == {"a", "A", "T", "0", "_", "f", "g", "x", "d"}

\* [\w:.]
IsNameSym(c) == c \in WordSyms \cup {":", "."}

\* The length of the longest prefix of s made of symbols satisfying the class.
RECURSIVE NamePrefixLen(_)
NamePrefixLen(s) ==
    IF s # <<>> /\ IsNameSym(Head(s)) THEN 1 + NamePrefixLen(Tail(s)) ELSE 0

\* A variant of TailMatches that accepts any text after the closing parenthesis
\* (the pattern without its final $).
TailMatchesAnything(rest) == TRUE

\* line 176, \s*(->\s*(.+))?$ : what may follow the closing parenthesis
TailMatches(rest) ==
    LET r == LStrip(rest)
    IN  r = <<>> \/ (StartsWith(r, <<"->">>) /\ Len(r) >= 2)

\* lines 176, 183: group 4, or "" when the arrow clause took no part in the
\* match; \s* is greedy and gives back one symbol when nothing else is left
\* for (.+)
ReturnGroup(rest) ==
    LET r == LStrip(rest)
        a == Drop(r, 1)
    IN  IF ~(StartsWith(r, <<"->">>) /\ Len(r) >= 2) THEN <<>>
        ELSE IF LStrip(a) # <<>> THEN LStrip(a)
        ELSE <<a[Len(a)]>>

\* A variant of SigMatch whose (.*) is greedy: it takes the last ")" after
\* which the rest of the pattern matches.
SigMatchGreedy(s) ==
    LET n == NamePrefixLen(s)
        w == Len(Drop(s, n)) - Len(LStrip(Drop(s, n)))
        p == n + w + 1
        closers == {q \in (p + 1)..Len(s) : s[q] = ")" /\ TailMatches(Drop(s, q))}
    IN  IF n >= 1 /\ p <= Len(s) /\ s[p] = "(" /\ closers # {}
        THEN LET q == CHOOSE c \in closers : \A d \in closers : c >= d
             IN  [matched |-> TRUE,
                  name |-> Take(s, n),
                  params_raw |-> SubSeq(s, p + 1, q - 1),
                  ret_type |-> ReturnGroup(Drop(s, q))]
        ELSE [matched |-> FALSE, name |-> <<>>, params_raw |-> <<>>, ret_type |-> <<>>]

\* line 176: re.match(r'^([\w:.]+)\s*\((.*?)\)\s*(->\s*(.+))?$', sig, re.DOTALL).
\* [\w:.]+ and the first \s* can only take their longest match (what follows
\* each is outside its class); (.*?) takes the first ")" after which the rest
\* of the pattern matches.
SigMatch(s) ==
    LET n == NamePrefixLen(s)
        w == Len(Drop(s, n)) - Len(LStrip(Drop(s, n)))
        p == n + w + 1
        closers == {q \in (p + 1)..Len(s) : s[q] = ")" /\ TailMatches(Drop(s, q))}
    IN  IF n >= 1 /\ p <= Len(s) /\ s[p] = "(" /\ closers # {}
        THEN LET q == CHOOSE c \in closers : \A d \in closers : c <= d
             IN  [matched |-> TRUE,
                  name |-> Take(s, n),
                  params_raw |-> SubSeq(s, p + 1, q - 1),
                  ret_type |-> ReturnGroup(Drop(s, q))]
        ELSE [matched |-> FALSE, name |-> <<>>, params_raw |-> <<>>, ret_type |-> <<>>]

\* One piece of rendered signature: <span class="cls">text</span>, or plain
\* text between spans when cls is "".
Span(cls, text) == [cls |-> cls, text |-> text]

\* params_raw.split(",")
RECURSIVE SplitComma(_)
SplitComma(text) ==
    LET k == Find(text, <<",">>)
    IN  IF k < 0 THEN <<text>> ELSE <<Take(text, k)>> \o SplitComma(Drop(text, k + 1))

\* lines 193-204: one parameter
FormatParam(param) ==
    LET colon_idx == Find(param, <<":">>)
    IN  IF colon_idx >= 0
        THEN <<Span("text", escape(Strip(Take(param, colon_idx)))),
               Span("op", <<":">>),
               Span("", <<" ">>),
               Span("typ", escape(Strip(Drop(param, colon_idx + 1))))>>
        ELSE <<Span("text", escape(param))>>

\* line 205: '<span class="op">, </span>'.join(formatted_params)
RECURSIVE JoinParams(_)
JoinParams(ps) ==
    IF ps = <<>> THEN <<>>
    ELSE IF Len(ps) = 1 THEN FormatParam(Strip(ps[1]))
    ELSE FormatParam(Strip(ps[1])) \o <<Span("op", <<",", " ">>)>> \o JoinParams(Tail(ps))

\* lines 172-212
format_signature_html(s) ==
    LET m == SigMatch(s)
    IN  IF ~m.matched THEN <<Span("fn", escape(s))>>
        ELSE <<Span("fn", escape(m.name)), Span("text", <<"(">>)>>
             \o (IF Strip(m.params_raw) # <<>>
                 THEN JoinParams(SplitComma(m.params_raw)) ELSE <<>>)
             \o <<Span("text", <<")">>)>>
             \o (IF Strip(m.ret_type) # <<>>
                 THEN <<Span("", <<" ">>), Span("op", <<"-&gt;">>), Span("", <<" ">>),
                        Span("typ", escape(Strip(m.ret_type)))>>
                 ELSE <<>>)

\* lines 215-223
format_example_html(example) ==
    LET comment_idx == Find(example, <<"/", "/">>)
    IN  IF comment_idx >= 0
        THEN <<Span("", escape(Take(example, comment_idx))),
               Span("cmt", escape(Drop(example, comment_idx)))>>
        ELSE <<Span("", escape(example))>>

\* [a-zA-Z0-9_-], among the symbols of the model's alphabets
AnchorSafe == WordSyms \cup {"-"}

\* re.sub(r'[^a-zA-Z0-9_-]', '-', name)
SubUnsafe(name) ==
    [k \in 1..Len(name) |-> IF name[k] \in AnchorSafe THEN name[k] ELSE "-"]

\* A variant of StripDashes that trims the leading dashes only.
RECURSIVE LStripDashes(_)
LStripDashes(s) == IF s # <<>> /\ Head(s) = "-" THEN LStripDashes(Tail(s)) ELSE s

\* str.strip('-')
RECURSIVE StripDashes(_)
StripDashes(s) ==
    IF s # <<>> /\ Head(s) = "-" THEN StripDashes(Tail(s))
    ELSE IF s # <<>> /\ s[Len(s)] = "-" THEN StripDashes(SubSeq(s, 1, Len(s) - 1))
    ELSE s

\* lines 226-228
make_anchor(name) == StripDashes(Lower(SubUnsafe(name)))

---------------------------------------------------------------------------
(* The taxonomy, group_by_category and generate_html.                      *)

\* lines 14-47.  A category name is a one-symbol string.
SECTION_GROUPS ==
    << [name |-> <<"Language">>,
        cats |-> << <<"Core">>, <<"Phase Transitions">>, <<"Type Constructors">>,
                    <<"Type Conversion">>, <<"Error Handling">> >>],
       [name |-> <<"Standard Library">>,
        cats |-> << <<"Math">>, <<"String Formatting">>, <<"Regex">>, <<"JSON">>,
                    <<"CSV">>, <<"URL">>, <<"Functional">>, <<"Metaprogramming">> >>],
       [name |-> <<"System">>,
        cats |-> << <<"File System">>, <<"Path">>, <<"Environment">>, <<"Process">>,
                    <<"Date & Time">>, <<"Crypto">>, <<"Networking">> >>],
       [name |-> <<"Type Methods">>,
        cats |-> << <<"String Methods">>, <<"Array Methods">>, <<"Map Methods">>,
                    <<"Channel Methods">> >>] >>

\* lines 50-52
RECURSIVE FlattenCats(_)
FlattenCats(sections) ==
    IF sections = <<>> THEN <<>> ELSE Head(sections).cats \o FlattenCats(Tail(sections))

CATEGORY_ORDER == FlattenCats(SECTION_GROUPS)

\* An OrderedDict is a sequence of [key, val] items in insertion order.
DictKeys(d) == [k \in 1..Len(d) |-> d[k].key]
DictHas(d, key) == \E k \in 1..Len(d) : d[k].key = key
DictGet(d, key) == (CHOOSE k \in 1..Len(d) : d[k].key = key)
DictVal(d, key) == d[DictGet(d, key)].val

\* A variant of PlaceEntry that puts an entry in front of its group.
PlaceEntryFirst(d, e) ==
    LET cat == IF e.category # <<>> THEN e.category ELSE <<"Core">>
        d1  == IF DictHas(d, cat) THEN d ELSE Append(d, [key |-> cat, val |-> <<>>])
    IN  [d1 EXCEPT ![DictGet(d1, cat)].val = <<e>> \o @]

\* A variant of PlaceEntry that drops an entry whose category is not in the
\* taxonomy.
PlaceEntryDeclaredOnly(d, e) ==
    LET cat == IF e.category # <<>> THEN e.category ELSE <<"Core">>
    IN  IF DictHas(d, cat)
        THEN [d EXCEPT ![DictGet(d, cat)].val = Append(@, e)]
        ELSE d

\* A variant of PlaceEntry that opens the group of a new category in front of
\* the others.
PlaceEntryNewFirst(d, e) ==
    LET cat == IF e.category # <<>> THEN e.category ELSE <<"Core">>
        d1  == IF DictHas(d, cat) THEN d ELSE <<[key |-> cat, val |-> <<>>]>> \o d
    IN  [d1 EXCEPT ![DictGet(d1, cat)].val = Append(@, e)]

\* lines 156-159: one entry placed in its group
PlaceEntry(d, e) ==
    LET cat == IF e.category # <<>> THEN e.category ELSE <<"Core">>
        d1  == IF DictHas(d, cat) THEN d ELSE Append(d, [key |-> cat, val |-> <<>>])
    IN  [d1 EXCEPT ![DictGet(d1, cat)].val = Append(@, e)]

\* lines 155-159
RECURSIVE PlaceAll(_, _)
PlaceAll(d, es) == IF es = <<>> THEN d ELSE PlaceAll(PlaceEntry(d, Head(es)), Tail(es))

\* line 162
RECURSIVE NonEmptyItems(_)
NonEmptyItems(d) ==
    IF d = <<>> THEN <<>>
    ELSE (IF Head(d).val # <<>> THEN <<Head(d)>> ELSE <<>>) \o NonEmptyItems(Tail(d))

\* lines 146-162
group_by_category(es) ==
    NonEmptyItems(
        PlaceAll([k \in 1..Len(CATEGORY_ORDER) |-> [key |-> CATEGORY_ORDER[k], val |-> <<>>]],
                 es))

\* sum(len(v) for v in groups.values())
RECURSIVE SumSizes(_)
SumSizes(d) == IF d = <<>> THEN 0 ELSE Len(Head(d).val) + SumSizes(Tail(d))

\* A variant of ActiveCats that adds the categories outside the taxonomy to
\* the section that holds "Core".
ActiveCatsCatchAll(categories, d) ==
    SelectSeq(categories, LAMBDA c : DictHas(d, c))
    \o (IF \E k \in 1..Len(categories) : categories[k] = <<"Core">>
        THEN SelectSeq(DictKeys(d),
                       LAMBDA key : \A k \in 1..Len(CATEGORY_ORDER) : CATEGORY_ORDER[k] # key)
        ELSE <<>>)

\* [c for c in categories if c in groups]
RECURSIVE ActiveCats(_, _)
ActiveCats(categories, d) ==
    IF categories = <<>> THEN <<>>
    ELSE (IF DictHas(d, Head(categories)) THEN <<Head(categories)>> ELSE <<>>)
         \o ActiveCats(Tail(categories), d)

\* lines 265-277: the card of one entry (its id anchor is left out)
RenderCard(e) ==
    [data_name |-> escape(Lower(e.name)),
     data_desc |-> escape(Lower(e.description)),
     sig_html  |-> format_signature_html(e.signature),
     desc      |-> escape(e.description),
     examples  |-> [k \in 1..Len(e.examples) |-> format_example_html(e.examples[k])]]

\* lines 236-249: the sidebar, one item per section with an active category
RECURSIVE RenderSidebar(_, _)
RenderSidebar(sections, d) ==
    IF sections = <<>> THEN <<>>
    ELSE LET active_cats == ActiveCats(Head(sections).cats, d)
         IN  (IF active_cats = <<>> THEN <<>>
              ELSE <<[heading |-> escape(Head(sections).name),
                      links |-> [k \in 1..Len(active_cats) |->
                                    [cat |-> escape(active_cats[k]),
                                     count |-> Len(DictVal(d, active_cats[k]))]]]>>)
             \o RenderSidebar(Tail(sections), d)

\* lines 253-279: the content, one block per active category of each section
RECURSIVE RenderContent(_, _)
RenderContent(sections, d) ==
    IF sections = <<>> THEN <<>>
    ELSE LET active_cats == ActiveCats(Head(sections).cats, d)
         IN  [k \in 1..Len(active_cats) |->
                 [section |-> escape(Head(sections).name),
                  title |-> escape(active_cats[k]),
                  cards |-> LET es == DictVal(d, active_cats[k])
                            IN  [j \in 1..Len(es) |-> RenderCard(es[j])]]]
             \o RenderContent(Tail(sections), d)

\* A variant of CountEntries that counts the entries of the rendered
\* categories only.
CountRendered(d) ==
    SumSizes(SelectSeq(d, LAMBDA item : \E k \in 1..Len(CATEGORY_ORDER) :
                                            CATEGORY_ORDER[k] = item.key))

\* line 299
CountEntries(d) == SumSizes(d)

\* A variant of IsEmptyState that shows the placeholder when no category is
\* rendered.
NothingRendered(d) == RenderContent(SECTION_GROUPS, d) = <<>>

\* line 282: not groups
IsEmptyState(d) == d = <<>>

\* lines 231-950: the document, by its parts (anchors, styles and the fixed
\* template text are left out).  empty_state tells that the content is the
\* fixed "No Documentation Yet" placeholder and the sidebar the fixed
\* "sidebar-empty" notice.
generate_html(d) ==
    [sidebar          |-> IF IsEmptyState(d) THEN <<>> ELSE RenderSidebar(SECTION_GROUPS, d),
     content          |-> IF IsEmptyState(d) THEN <<>> ELSE RenderContent(SECTION_GROUPS, d),
     empty_state      |-> IsEmptyState(d),
     total_entries    |-> CountEntries(d),
     total_categories |-> Len(d)]

---------------------------------------------------------------------------
(* The values of the variables a specification does not use.               *)

ParseIdle ==
    /\ source_text = <<>>
    /\ lines = <<>>
    /\ i = 0
    /\ entry = DocEntry
    /\ desc_lines = <<>>
    /\ visits = <<>>

AnchorIdle ==
    /\ anchor_in = <<>>
    /\ anchor_out = <<>>
    /\ anchor_again = <<>>

MainIdle ==
    /\ src_dir = <<>>
    /\ writable = FALSE
    /\ c_files = <<>>
    /\ file_idx = 0
    /\ warnings = <<>>
    /\ groups = <<>>
    /\ html = <<>>
    /\ totals = <<>>

PageIdle ==
    /\ query = <<>>
    /\ classes = <<>>
    /\ display = <<>>
    /\ ever_hidden = FALSE

BenchIdle ==
    /\ store = {}
    /\ pending = {}
    /\ bench_files = {}
    /\ runs = 0
    /\ commit = ""
    /\ version = ""
    /\ b_idx = 0
    /\ inserted = 0
    /\ skipped = 0

---------------------------------------------------------------------------
(* parse_doc_blocks, one loop iteration per step.                          *)

\* The lines a source file is made of in this model.
LineBuiltin   == Marker \o <<" ", "@builtin", " ", "f", "(", "x", ")">>
LineMethod    == <<" ">> \o Marker \o <<" ", "@method", " ", "g">>
LineBothTags  == Marker \o <<" ", "@method", " ", "g", " ", "@builtin">>
LineCatMath   == Marker \o <<" ", "@category", " ", "Math">>
LineCatCustom == Marker \o <<"@category", "Custom", " ">>
LineExample   == Marker \o <<" ", "@example", " ", "f", "(", "x", ")", " ", "/", "/", "x">>
LineDesc      == Marker \o <<" ", "d", " ", "d", " ">>
LineEmpty     == <<" ">> \o Marker \o <<" ">>
LineCode      == <<"x", " ", "/", "/", " ", "@builtin">>
LineBlank     == <<>>

LineSet ==
    {LineBuiltin, LineMethod, LineBothTags, LineCatMath, LineCatCustom,
     LineExample, LineDesc, LineEmpty, LineCode, LineBlank}

\* "\n".join(ls): the text whose lines are ls
RECURSIVE JoinLines(_)
JoinLines(ls) ==
    IF Len(ls) = 1 THEN ls[1] ELSE ls[1] \o <<"\n">> \o JoinLines(Tail(ls))

SourceTexts ==
    {JoinLines(ls) : ls \in UNION {[1..n -> LineSet] : n \in 1..MaxLines}}

InitParse ==
    /\ pc = "call"
    /\ source_text \in SourceTexts
    /\ lines = <<>>
    /\ i = 0
    /\ entries = <<>>
    /\ entry = DocEntry
    /\ desc_lines = <<>>
    /\ visits = <<>>
    /\ sig = <<>>
    /\ sig_match = <<>>
    /\ card = <<>>
    /\ AnchorIdle
    /\ MainIdle
    /\ PageIdle
    /\ BenchIdle

\* lines 69-71
ParseEnter ==
    /\ pc = "call"
    /\ lines' = Split(source_text)
    /\ i' = 0
    /\ entries' = <<>>
    /\ visits' = [k \in 1..Len(Split(source_text)) |-> <<>>]
    /\ pc' = "outer"
    /\ UNCHANGED <<pageVars, benchVars, source_text, entry, desc_lines, pureVars, mainVars>>

\* lines 73-77, 119-120: a line outside any block
OuterSkip ==
    /\ pc = "outer"
    /\ i < Len(lines)
    /\ ~IsBlockStart(Strip(lines[i + 1]))
    /\ i' = i + 1
    /\ visits' = [visits EXCEPT ![i + 1] = Append(@, 0)]
    /\ UNCHANGED <<pageVars, benchVars, pc, source_text, lines, entries, entry, desc_lines, pureVars, mainVars>>

\* lines 73-98: a tag line opens a block
OuterBegin ==
    /\ pc = "outer"
    /\ i < Len(lines)
    /\ IsBlockStart(Strip(lines[i + 1]))
    /\ entry' = BeginEntry(Strip(lines[i + 1]))
    /\ i' = i + 1
    /\ desc_lines' = <<>>
    /\ visits' = [visits EXCEPT ![i + 1] = Append(@, Len(entries) + 1)]
    /\ pc' = "inner"
    /\ UNCHANGED <<pageVars, benchVars, source_text, lines, entries, pureVars, mainVars>>

\* lines 99-115: a marked line of the block
InnerConsume ==
    /\ pc = "inner"
    /\ i < Len(lines)
    /\ IsMarked(Strip(lines[i + 1]))
    /\ LET st == ConsumeLine([entry |-> entry, desc |-> desc_lines], Strip(lines[i + 1]))
       IN  /\ entry' = st.entry
           /\ desc_lines' = st.desc
    /\ i' = i + 1
    /\ visits' = [visits EXCEPT ![i + 1] = Append(@, Len(entries) + 1)]
    /\ UNCHANGED <<pageVars, benchVars, pc, source_text, lines, entries, pureVars, mainVars>>

\* A variant of InnerEnd that moves past the line that ended the block.
InnerEndSkipsLine ==
    /\ pc = "inner"
    /\ IF i < Len(lines) THEN ~IsMarked(Strip(lines[i + 1])) ELSE TRUE
    /\ entries' = Append(entries, FinishEntry([entry |-> entry, desc |-> desc_lines]))
    /\ i' = IF i < Len(lines) THEN i + 1 ELSE i
    /\ pc' = "outer"
    /\ UNCHANGED <<pageVars, benchVars, source_text, lines, entry, desc_lines, visits,
                   pureVars, mainVars>>

\* lines 99-102, 117-118: the block ends at an unmarked line or at the end of the file
InnerEnd ==
    /\ pc = "inner"
    /\ IF i < Len(lines) THEN ~IsMarked(Strip(lines[i + 1])) ELSE TRUE
    /\ entries' = Append(entries, FinishEntry([entry |-> entry, desc |-> desc_lines]))
    /\ pc' = "outer"
    /\ UNCHANGED <<pageVars, benchVars, parseVars, pureVars, mainVars>>

\* lines 73, 122
ParseReturn ==
    /\ pc = "outer"
    /\ i >= Len(lines)
    /\ pc' = "done"
    /\ UNCHANGED <<pageVars, benchVars, entries, parseVars, pureVars, mainVars>>

NextParse ==
    \/ ParseEnter
    \/ OuterSkip
    \/ OuterBegin
    \/ InnerConsume
    \/ InnerEnd
    \/ ParseReturn

SpecParse == InitParse /\ [][NextParse]_vars

\* The stepwise run returns what the function returns.
ParseStepsAgree == pc = "done" => entries = parse_doc_blocks(source_text)

---------------------------------------------------------------------------
(* parse_doc_blocks on files of one doc block whose tag line carries every *)
(* signature text of a bounded alphabet.                                   *)

NameAlphabet == {"f", ".", " ", "(", ")"}

NameTexts == UNION {[1..n -> NameAlphabet] : n \in 0..MaxSigLen}

\* The tag line "/// <tag> <text>".
TagLine(tag, text) == Marker \o <<" ">> \o tag \o <<" ">> \o text

\* The block alone in its file, or between a code line and a description line.
TagLineTexts ==
    {TagLine(tag, text) : tag \in {TagBuiltin, TagMethod}, text \in NameTexts}
    \cup {JoinLines(<<LineCode, TagLine(TagMethod, text), LineDesc>>) : text \in NameTexts}

InitName ==
    /\ pc = "call"
    /\ source_text \in TagLineTexts
    /\ lines = <<>>
    /\ i = 0
    /\ entries = <<>>
    /\ entry = DocEntry
    /\ desc_lines = <<>>
    /\ visits = <<>>
    /\ sig = <<>>
    /\ sig_match = <<>>
    /\ card = <<>>
    /\ AnchorIdle
    /\ MainIdle
    /\ PageIdle
    /\ BenchIdle

SpecName == InitName /\ [][NextParse]_vars

---------------------------------------------------------------------------
(* format_signature_html and make_anchor applied to every text of a        *)
(* bounded alphabet.                                                       *)

SigAlphabet == {"f", ":", " ", "(", ")", "->", ","}

SigTexts == UNION {[1..n -> SigAlphabet] : n \in 0..MaxSigLen}

AnchorAlphabet == {"A", "a", "0", "_", "-", " "}

AnchorTexts == UNION {[1..n -> AnchorAlphabet] : n \in 0..MaxAnchorLen}

InitSig ==
    /\ pc = "sig_call"
    /\ sig \in SigTexts
    /\ card = <<>>
    /\ sig_match = <<>>
    /\ entries = <<>>
    /\ AnchorIdle
    /\ ParseIdle
    /\ MainIdle
    /\ PageIdle
    /\ BenchIdle

\* lines 266-269 with 172-212: the card of an entry whose signature is sig
FormatSignature ==
    /\ pc = "sig_call"
    /\ card' = RenderCard([DocEntry EXCEPT !.signature = sig, !.name = NameOf(sig)])
    /\ sig_match' = SigMatch(sig)
    /\ pc' = "sig_done"
    /\ UNCHANGED <<pageVars, benchVars, entries, parseVars, mainVars, sig, anchor_in, anchor_out, anchor_again>>

NextSig == FormatSignature

SpecSig == InitSig /\ [][NextSig]_vars

InitAnchor ==
    /\ pc = "anchor_call"
    /\ anchor_in \in AnchorTexts
    /\ anchor_out = <<>>
    /\ anchor_again = <<>>
    /\ sig = <<>>
    /\ sig_match = <<>>
    /\ card = <<>>
    /\ entries = <<>>
    /\ ParseIdle
    /\ MainIdle
    /\ PageIdle
    /\ BenchIdle

\* lines 226-228
AnchorOnce ==
    /\ pc = "anchor_call"
    /\ anchor_out' = make_anchor(anchor_in)
    /\ pc' = "anchored"
    /\ UNCHANGED <<pageVars, benchVars, entries, parseVars, mainVars, sig, card, sig_match, anchor_in, anchor_again>>

\* lines 226-228, on the result of the first call
AnchorTwice ==
    /\ pc = "anchored"
    /\ anchor_again' = make_anchor(anchor_out)
    /\ pc' = "anchored_twice"
    /\ UNCHANGED <<pageVars, benchVars, entries, parseVars, mainVars, sig, card, sig_match, anchor_in, anchor_out>>

NextAnchor ==
    \/ AnchorOnce
    \/ AnchorTwice

SpecAnchor == InitAnchor /\ [][NextAnchor]_vars

---------------------------------------------------------------------------
(* main: scan_source_files, group_by_category, generate_html.              *)

\* The names of the *.c files a source directory may hold; a smaller number is
\* a lexically smaller name.
FileNames == 1..MaxFiles

LineCatExtra == Marker \o <<" ", "@category", " ", "Extra">>

\* The texts a source file may hold.
TextEmpty   == <<>>
TextNoTag   == JoinLines(<<LineDesc, LineCode>>)
TextMath    == JoinLines(<<LineBuiltin, LineCatMath, LineExample>>)
TextCore    == JoinLines(<<LineMethod, LineDesc>>)
TextTwoCore == JoinLines(<<LineBuiltin, LineBlank, LineMethod, LineBlank>>)
TextCustom  == JoinLines(<<LineDesc, LineBuiltin, LineCatCustom>>)
TextExtra   == JoinLines(<<LineMethod, LineCatExtra, LineCode, LineBuiltin, LineCatMath>>)

TextMixed   == JoinLines(<<LineBuiltin, LineCatCustom, LineCode, LineMethod>>)

FileTexts ==
    {TextEmpty, TextNoTag, TextMath, TextCore, TextTwoCore, TextCustom, TextExtra,
     TextMixed}

FileStates == [readable : BOOLEAN, text : FileTexts]

SourceDirs ==
    {[exists |-> FALSE, files |-> <<>>]}
    \cup {[exists |-> TRUE, files |-> fs] :
            fs \in UNION {[S -> FileStates] : S \in SUBSET FileNames}}

InitMain ==
    /\ pc = "main"
    /\ src_dir \in SourceDirs
    /\ writable \in BOOLEAN
    /\ c_files = <<>>
    /\ file_idx = 0
    /\ warnings = <<>>
    /\ entries = <<>>
    /\ groups = <<>>
    /\ html = <<>>
    /\ totals = <<>>
    /\ ParseIdle
    /\ sig = <<>>
    /\ sig_match = <<>>
    /\ card = <<>>
    /\ AnchorIdle
    /\ PageIdle
    /\ BenchIdle

\* line 134: sorted(...)
RECURSIVE Sorted(_)
Sorted(S) ==
    IF S = {} THEN <<>>
    ELSE LET m == CHOOSE x \in S : \A y \in S : x <= y
         IN  <<m>> \o Sorted(S \ {m})

\* The DocEntry objects of one file: each entry with the identity of the
\* object (the file it was parsed from and its rank among that file's entries).
WithIdentity(file_entries, c_file) ==
    [j \in 1..Len(file_entries) |-> [file |-> c_file, idx |-> j] @@ file_entries[j]]

\* lines 127-132: the source directory does not exist
ScanMissingDir ==
    /\ pc = "main"
    /\ ~src_dir.exists
    /\ entries' = <<>>
    /\ warnings' = Append(warnings, "no source directory")
    /\ pc' = "scanned"
    /\ UNCHANGED <<pageVars, benchVars, parseVars, pureVars, src_dir, writable, c_files, file_idx, groups,
                   html, totals>>

\* lines 127-134
ScanEnter ==
    /\ pc = "main"
    /\ src_dir.exists
    /\ entries' = <<>>
    /\ c_files' = Sorted(DOMAIN src_dir.files)
    /\ file_idx' = 0
    /\ pc' = "scanning"
    /\ UNCHANGED <<pageVars, benchVars, parseVars, pureVars, src_dir, writable, warnings, groups, html, totals>>

\* lines 135-139: a file that can be read
ScanFile ==
    /\ pc = "scanning"
    /\ file_idx < Len(c_files)
    /\ LET c_file == c_files[file_idx + 1]
       IN  /\ src_dir.files[c_file].readable
           /\ entries' = entries
                 \o WithIdentity(parse_doc_blocks(src_dir.files[c_file].text), c_file)
    /\ file_idx' = file_idx + 1
    /\ UNCHANGED <<pageVars, benchVars, pc, parseVars, pureVars, src_dir, writable, c_files, warnings, groups,
                   html, totals>>

\* A variant of ScanFileFails in which a read failure ends the scan.
ScanFileFailsEndsScan ==
    /\ pc = "scanning"
    /\ file_idx < Len(c_files)
    /\ ~src_dir.files[c_files[file_idx + 1]].readable
    /\ warnings' = Append(warnings, c_files[file_idx + 1])
    /\ pc' = "scanned"
    /\ UNCHANGED <<pageVars, benchVars, entries, parseVars, pureVars, src_dir, writable, c_files, file_idx,
                   groups, html, totals>>

\* lines 135-141: a file whose read raises
ScanFileFails ==
    /\ pc = "scanning"
    /\ file_idx < Len(c_files)
    /\ ~src_dir.files[c_files[file_idx + 1]].readable
    /\ warnings' = Append(warnings, c_files[file_idx + 1])
    /\ file_idx' = file_idx + 1
    /\ UNCHANGED <<pageVars, benchVars, pc, entries, parseVars, pureVars, src_dir, writable, c_files, groups,
                   html, totals>>

\* lines 135, 143
ScanReturn ==
    /\ pc = "scanning"
    /\ file_idx >= Len(c_files)
    /\ pc' = "scanned"
    /\ UNCHANGED <<pageVars, benchVars, entries, parseVars, pureVars, mainVars>>

\* line 977
Group ==
    /\ pc = "scanned"
    /\ groups' = group_by_category(entries)
    /\ pc' = "grouped"
    /\ UNCHANGED <<pageVars, benchVars, entries, parseVars, pureVars, src_dir, writable, c_files, file_idx,
                   warnings, html, totals>>

\* lines 981, 231-959: the document is built, written and its totals returned
Generate ==
    /\ pc = "grouped"
    /\ writable
    /\ html' = generate_html(groups)
    /\ totals' = <<generate_html(groups).total_entries,
                   generate_html(groups).total_categories>>
    /\ pc' = "done"
    /\ UNCHANGED <<pageVars, benchVars, entries, parseVars, pureVars, src_dir, writable, c_files, file_idx,
                   warnings, groups>>

\* lines 953-957: creating the output directory or opening the file raises
GenerateFails ==
    /\ pc = "grouped"
    /\ ~writable
    /\ pc' = "aborted"
    /\ UNCHANGED <<pageVars, benchVars, entries, parseVars, pureVars, mainVars>>

NextMain ==
    \/ ScanMissingDir
    \/ ScanEnter
    \/ ScanFile
    \/ ScanFileFails
    \/ ScanReturn
    \/ Group
    \/ Generate
    \/ GenerateFails

SpecMain == InitMain /\ [][NextMain]_vars

---------------------------------------------------------------------------
(* The generated page in the browser: the search filter of its script.     *)

MaxQueryLen == 2

LineUpperTag  == Marker \o <<" ", "@method", " ", "A", ".", "f", "(", "T", ")">>
LineUpperDesc == Marker \o <<" ", "a", " ", "<", "T", ">", " ", "d">>

TextUpper  == JoinLines(<<LineUpperTag, LineUpperDesc>>)
TextSearch ==
    JoinLines(<<LineBuiltin, LineBlank, LineMethod, LineDesc, LineBlank,
                LineUpperTag, LineUpperDesc, LineCatMath>>)

\* The directories the pages are generated from: one readable file each.
SearchDirs ==
    {[exists |-> TRUE, files |-> <<[readable |-> TRUE, text |-> t]>>] :
        t \in FileTexts \cup {TextUpper, TextSearch}}

QueryAlphabet == {"A", "f", "g", "d", " ", "<"}

QueryTexts == UNION {[1..n -> QueryAlphabet] : n \in 0..MaxQueryLen}

InitSearch ==
    /\ pc = "main"
    /\ src_dir \in SearchDirs
    /\ writable = TRUE
    /\ c_files = <<>>
    /\ file_idx = 0
    /\ warnings = <<>>
    /\ entries = <<>>
    /\ groups = <<>>
    /\ html = <<>>
    /\ totals = <<>>
    /\ ParseIdle
    /\ sig = <<>>
    /\ sig_match = <<>>
    /\ card = <<>>
    /\ AnchorIdle
    /\ PageIdle
    /\ BenchIdle

\* lines 859-860: the value of an attribute as getAttribute gives it; the browser has
\* decoded the character references that escape wrote.
UnescapeSym(c) ==
    CASE c = "&amp;"  -> "&"
      [] c = "&lt;"   -> "<"
      [] c = "&gt;"   -> ">"
      [] c = "-&gt;"  -> "->"
      [] c = "&quot;" -> "\""
      [] c = "&#x27;" -> "'"
      [] OTHER        -> c

AttrValue(text) == [k \in 1..Len(text) |-> UnescapeSym(text[k])]

\* A variant of CardClasses that never takes the class "hidden" off.
CardClassesNeverShown(q, c, cls) ==
    IF q = <<>> \/ Contains(AttrValue(c.data_name), q) \/ Contains(AttrValue(c.data_desc), q)
    THEN cls
    ELSE cls \cup {"hidden"}

\* lines 857-867: the class list of one card after an input event of query q
CardClasses(q, c, cls) ==
    LET name == AttrValue(c.data_name)
        desc == AttrValue(c.data_desc)
    IN  IF q = <<>> \/ Contains(name, q) \/ Contains(desc, q)
        THEN cls \ {"hidden"}
        ELSE cls \cup {"hidden"}

\* lines 870-874: the display of a category block whose cards have these class lists
BlockDisplay(block_classes) ==
    LET visibleEntries == {j \in 1..Len(block_classes) : "hidden" \notin block_classes[j]}
    IN  IF visibleEntries = {} THEN "none" ELSE ""

\* lines 845-852: the browser loads the document and runs its script
LoadPage ==
    /\ pc = "done"
    /\ query' = <<>>
    /\ classes' = [k \in 1..Len(html.content) |->
                      [j \in 1..Len(html.content[k].cards) |-> {"doc-entry"}]]
    /\ display' = [k \in 1..Len(html.content) |-> ""]
    /\ ever_hidden' = FALSE
    /\ pc' = "page"
    /\ UNCHANGED <<benchVars, entries, parseVars, pureVars, mainVars>>

\* lines 854-875: an input event on the search field, which holds value
SearchInput ==
    /\ pc = "page"
    /\ \E value \in QueryTexts :
          LET q == Strip(Lower(value))
              after == [k \in 1..Len(html.content) |->
                           [j \in 1..Len(html.content[k].cards) |->
                               CardClasses(q, html.content[k].cards[j], classes[k][j])]]
          IN  /\ query' = value
              /\ classes' = after
              /\ display' = [k \in 1..Len(html.content) |-> BlockDisplay(after[k])]
              /\ ever_hidden' =
                    (ever_hidden \/ \E k \in 1..Len(after) :
                                       \E j \in 1..Len(after[k]) : "hidden" \in after[k][j])
    /\ UNCHANGED <<benchVars, pc, entries, parseVars, pureVars, mainVars>>

NextSearch ==
    \/ ScanEnter
    \/ ScanFile
    \/ ScanReturn
    \/ Group
    \/ Generate
    \/ LoadPage
    \/ SearchInput

SpecSearch == InitSearch /\ [][NextSearch]_vars

---------------------------------------------------------------------------
(* bench/run_benchmarks_ci.py: runs of the harness, one after the other,   *)
(* against the table lattice_benchmarks.  The conflict target of its       *)
(* INSERT names the table's unique key (commit_hash, benchmark).           *)

MaxRuns == 2

\* line 27
RUNS == 3

\* lines 35-44
BENCHMARKS ==
    << [name |-> "fib_recursive",   label |-> "Function calls"],
       [name |-> "nested_loops",    label |-> "Iteration"],
       [name |-> "sieve",           label |-> "Array operations"],
       [name |-> "map_operations",  label |-> "Map operations"],
       [name |-> "string_concat",   label |-> "String operations"],
       [name |-> "closures",        label |-> "Closures"],
       [name |-> "scope_spawn",     label |-> "Scope/spawn"],
       [name |-> "select_channels", label |-> "Select channels"] >>

\* What a run may find: the commit checked out, the version in lattice.h
\* ("unknown" without one), the benchmark files present, the times measured
\* (in ms).
Commits       == {"a1", "b2"}
Versions      == {"0.3", "unknown"}
BenchFileSets == {{}, {"fib_recursive"}, {"fib_recursive", "sieve"}}
Timings       == {0, 1}

\* lines 96-98
Platform == "Linux x86_64"

\* statistics.median of an odd number of values: the middle one
Median(ts) ==
    CHOOSE m \in {ts[k] : k \in 1..Len(ts)} :
        /\ 2 * Cardinality({k \in 1..Len(ts) : ts[k] < m}) < Len(ts)
        /\ 2 * Cardinality({k \in 1..Len(ts) : ts[k] > m}) < Len(ts)

\* line 134: round(tw_ms / bc_ms, 2) if bc_ms > 0 else 0.0, in hundredths
\* (no quotient of two of the Timings lies halfway between two hundredths)
Speedup(tw_ms, bc_ms) ==
    IF bc_ms > 0 THEN (200 * tw_ms + bc_ms) \div (2 * bc_ms) ELSE 0

\* lines 137-142: the parameters of the INSERT
BenchRow(label, tw_ms, bc_ms) ==
    [commit_hash |-> commit, version |-> version, benchmark |-> label,
     tw_ms |-> tw_ms, bc_ms |-> bc_ms, speedup |-> Speedup(tw_ms, bc_ms),
     platform |-> Platform]

\* A variant of ExecuteInsert without the ON CONFLICT clause, on a table
\* without the unique key.
ExecuteInsertAlways(visible, row) == [added |-> {row}, rowcount |-> 1]

\* lines 137-142: INSERT ... ON CONFLICT (commit_hash, benchmark) DO NOTHING,
\* with the rows the transaction sees; it gives the rows added and cur.rowcount
ExecuteInsert(visible, row) ==
    IF \E r \in visible :
           r.commit_hash = row.commit_hash /\ r.benchmark = row.benchmark
    THEN [added |-> {}, rowcount |-> 0]
    ELSE [added |-> {row}, rowcount |-> 1]

InitBench ==
    /\ pc = "bench_idle"
    /\ store = {}
    /\ pending = {}
    /\ bench_files = {}
    /\ runs = 0
    /\ commit = ""
    /\ version = ""
    /\ b_idx = 0
    /\ inserted = 0
    /\ skipped = 0
    /\ entries = <<>>
    /\ sig = <<>>
    /\ sig_match = <<>>
    /\ card = <<>>
    /\ ParseIdle
    /\ AnchorIdle
    /\ MainIdle
    /\ PageIdle

\* lines 48-55, 104-122: a run that stops before its loop (git pull or make
\* fails, or the connection is refused)
BenchSetupFails ==
    /\ pc = "bench_idle"
    /\ runs < MaxRuns
    /\ runs' = runs + 1
    /\ UNCHANGED <<pc, entries, parseVars, pureVars, mainVars, pageVars, store, pending,
                   bench_files, commit, version, b_idx, inserted, skipped>>

\* lines 104-126: a run pulls, builds, reads commit and version, connects
BenchStart ==
    /\ pc = "bench_idle"
    /\ runs < MaxRuns
    /\ runs' = runs + 1
    /\ commit' \in Commits
    /\ version' \in Versions
    /\ bench_files' \in BenchFileSets
    /\ pending' = {}
    /\ b_idx' = 0
    /\ inserted' = 0
    /\ skipped' = 0
    /\ pc' = "bench_loop"
    /\ UNCHANGED <<entries, parseVars, pureVars, mainVars, pageVars, store>>

\* lines 128-132 with 82-85: the benchmark's file is not there
BenchSkipMissing ==
    /\ pc = "bench_loop"
    /\ b_idx < Len(BENCHMARKS)
    /\ BENCHMARKS[b_idx + 1].name \notin bench_files
    /\ b_idx' = b_idx + 1
    /\ UNCHANGED <<pc, entries, parseVars, pureVars, mainVars, pageVars, store, pending,
                   bench_files, runs, commit, version, inserted, skipped>>

\* lines 128-147 with 87-93: the benchmark is timed and its row inserted
BenchRecord ==
    /\ pc = "bench_loop"
    /\ b_idx < Len(BENCHMARKS)
    /\ BENCHMARKS[b_idx + 1].name \in bench_files
    /\ \E tw_times \in [1..RUNS -> Timings], bc_times \in [1..RUNS -> Timings] :
          LET row == BenchRow(BENCHMARKS[b_idx + 1].label, Median(tw_times),
                              Median(bc_times))
              res == ExecuteInsert(store \cup pending, row)
          IN  /\ pending' = pending \cup res.added
              /\ inserted' = IF res.rowcount > 0 THEN inserted + 1 ELSE inserted
              /\ skipped' = IF res.rowcount > 0 THEN skipped ELSE skipped + 1
    /\ b_idx' = b_idx + 1
    /\ UNCHANGED <<pc, entries, parseVars, pureVars, mainVars, pageVars, store,
                   bench_files, runs, commit, version>>

\* line 137: cur.execute raises (the connection is lost); the process ends
\* and the server rolls the transaction back
BenchExecuteFails ==
    /\ pc = "bench_loop"
    /\ b_idx < Len(BENCHMARKS)
    /\ BENCHMARKS[b_idx + 1].name \in bench_files
    /\ pending' = {}
    /\ pc' = "bench_idle"
    /\ UNCHANGED <<entries, parseVars, pureVars, mainVars, pageVars, store,
                   bench_files, runs, commit, version, b_idx, inserted, skipped>>

\* lines 128, 149-153: the loop is over; conn.commit()
BenchCommit ==
    /\ pc = "bench_loop"
    /\ b_idx >= Len(BENCHMARKS)
    /\ store' = store \cup pending
    /\ pending' = {}
    /\ pc' = "bench_idle"
    /\ UNCHANGED <<entries, parseVars, pureVars, mainVars, pageVars,
                   bench_files, runs, commit, version, b_idx, inserted, skipped>>

NextBench ==
    \/ BenchSetupFails
    \/ BenchStart
    \/ BenchSkipMissing
    \/ BenchRecord
    \/ BenchExecuteFails
    \/ BenchCommit

SpecBench == InitBench /\ [][NextBench]_vars

---------------------------------------------------------------------------
(* What the specification says of a doc block, stated on the lines of the  *)
(* file alone (none of the operators above that model the parser's         *)
(* control flow is used).                                                  *)

\* The line, trimmed, begins with the comment-block marker.
BeginsWithMarker(l) ==
    LET t == Strip(l) IN Len(t) >= 3 /\ t[1] = "/" /\ t[2] = "/" /\ t[3] = "/"

\* The text after the marker, trimmed.
Payload(l) == Strip(Drop(Strip(l), 3))

\* A marked line that contains one of the two block tags.
IsTagLine(l) ==
    /\ BeginsWithMarker(l)
    /\ \E k \in 1..Len(l) : l[k] \in {"@builtin", "@method"}

\* The payload begins with the given keyword.
Tagged(l, kw) == Payload(l) # <<>> /\ Payload(l)[1] = kw

\* The payload with its leading keyword taken off, trimmed.
Remainder(l) == Strip(Tail(Payload(l)))

\* The file is one block in the form the specification gives it: a line
\* "/// @builtin <sig>" or "/// @method <sig>" followed by marked lines only.
IsOneBlock(ls) ==
    /\ Len(ls) >= 1
    /\ BeginsWithMarker(ls[1])
    /\ (Tagged(ls[1], "@builtin") \/ Tagged(ls[1], "@method"))
    /\ \A k \in 2..Len(ls) : BeginsWithMarker(ls[k])

IsCategoryLine(l) == Tagged(l, "@category")
IsExampleLine(l) == Tagged(l, "@example")
IsDescriptionLine(l) ==
    Payload(l) # <<>> /\ ~IsCategoryLine(l) /\ ~IsExampleLine(l)

\* The remainders of the lines of ls tagged kw, in file order.
RECURSIVE RemaindersOf(_, _)
RemaindersOf(ls, kw) ==
    IF ls = <<>> THEN <<>>
    ELSE (IF Tagged(Head(ls), kw) THEN <<Remainder(Head(ls))>> ELSE <<>>)
         \o RemaindersOf(Tail(ls), kw)

\* The payloads of the description lines of ls, in file order.
RECURSIVE DescriptionsOf(_)
DescriptionsOf(ls) ==
    IF ls = <<>> THEN <<>>
    ELSE (IF IsDescriptionLine(Head(ls)) THEN <<Payload(Head(ls))>> ELSE <<>>)
         \o DescriptionsOf(Tail(ls))

LastOrEmpty(seq) == IF seq = <<>> THEN <<>> ELSE seq[Len(seq)]

\* C1 as stated: a block in the specification's form yields an entry whose
\* kind is the tag that leads the tag line, whose signature is the tag line's
\* payload without that keyword, whose category is the payload of the last
\* @category line, whose description is the non-empty untagged payloads
\* joined by single spaces, and whose examples are the remainders of the
\* @example lines in file order.
C1_BlockYieldsEntry ==
    (pc = "done" /\ IsOneBlock(lines)) =>
        /\ Len(entries) = 1
        /\ entries[1].kind = (IF Tagged(lines[1], "@builtin") THEN "builtin" ELSE "method")
        /\ entries[1].signature = Remainder(lines[1])
        /\ entries[1].category = LastOrEmpty(RemaindersOf(Tail(lines), "@category"))
        /\ entries[1].description = JoinSpace(DescriptionsOf(Tail(lines)))
        /\ entries[1].examples = RemaindersOf(Tail(lines), "@example")

\* The same statement for the blocks whose tag line holds one block tag only;
\* TLC finds it to hold (it is no claim's formula: it locates the divergence).
C1_HoldsForSingleTag ==
    (pc = "done" /\ IsOneBlock(lines)
        /\ Cardinality({k \in 1..Len(lines[1]) : lines[1][k] \in {"@builtin", "@method"}}) = 1)
    => C1_BlockYieldsEntry

\* Line k (1-based) is the first line of a maximal run of marked lines.
IsRunStart(ls, k) ==
    BeginsWithMarker(ls[k]) /\ (k = 1 \/ ~BeginsWithMarker(ls[k - 1]))

\* The last line of the run of marked lines that line k belongs to.
RunEnd(ls, k) ==
    CHOOSE e \in k..Len(ls) :
        /\ \A m \in k..e : BeginsWithMarker(ls[m])
        /\ (e = Len(ls) \/ ~BeginsWithMarker(ls[e + 1]))

\* The runs that contain a tag line, by their first line.
TaggedRuns(ls) ==
    {k \in 1..Len(ls) :
        IsRunStart(ls, k) /\ \E t \in k..RunEnd(ls, k) : IsTagLine(ls[t])}

FirstTagLine(ls, k) ==
    CHOOSE t \in k..RunEnd(ls, k) :
        IsTagLine(ls[t]) /\ \A m \in k..(t - 1) : ~IsTagLine(ls[m])

\* The j-th smallest element of a finite set of integers.
Nth(S, j) == CHOOSE x \in S : Cardinality({y \in S : y < x}) = j - 1

\* The lines of a block: from the run's first tag line to the run's end.
BlockLines(ls, k) == SubSeq(ls, FirstTagLine(ls, k), RunEnd(ls, k))

\* What the block's lines alone say of the category, description and examples.
BlockContent(block) ==
    [category    |-> LastOrEmpty(RemaindersOf(Tail(block), "@category")),
     description |-> JoinSpace(DescriptionsOf(Tail(block))),
     examples    |-> RemaindersOf(Tail(block), "@example")]

EntryContent(e) ==
    [category |-> e.category, description |-> e.description, examples |-> e.examples]

\* C2: the parse holds exactly one entry per maximal run of marked lines that
\* contains a tag line, in file order, and the content of the j-th entry is
\* that of the lines from the run's first tag line to the run's last line:
\* nothing of the line that ends the block, or of a later line, is in it.
C2_OneEntryPerBlock ==
    pc = "done" =>
        /\ Len(entries) = Cardinality(TaggedRuns(lines))
        /\ \A j \in 1..Len(entries) :
              LET k == Nth(TaggedRuns(lines), j)
              IN  /\ entries[j].kind # ""
                  /\ EntryContent(entries[j]) = BlockContent(BlockLines(lines, k))

\* A finished parse of two blocks, the first ended by an unmarked line, the
\* second by the end of the file, one of them holding lines after its tag line.
C2_Witness ==
    /\ pc = "done"
    /\ Len(entries) = 2
    /\ Len(lines) = 4
    /\ BeginsWithMarker(lines[4])
    /\ \E j \in 1..2 : entries[j].description # <<>>

---------------------------------------------------------------------------
(* Claims about main: scanning, grouping and rendering.                    *)

AfterScan == pc \in {"scanned", "grouped", "done", "aborted"}
AfterGroup == pc \in {"grouped", "done", "aborted"}

\* Entry x was scanned before entry y: an earlier file, or the same file and
\* an earlier block.
ScannedBefore(x, y) == x.file < y.file \/ (x.file = y.file /\ x.idx < y.idx)

\* C3: in every category group, entries are in scan order: those of a
\* lexically earlier file before those of a later file, and those of one file
\* in their block order.
C3_GroupOrderIsScanOrder ==
    AfterGroup =>
        \A g \in 1..Len(groups) :
            \A a, b \in 1..Len(groups[g].val) :
                a < b => ScannedBefore(groups[g].val[a], groups[g].val[b])

\* A group holding two entries of one file followed by one of a later file.
C3_Witness ==
    /\ pc = "grouped"
    /\ \E g \in 1..Len(groups) :
          /\ Len(groups[g].val) = 3
          /\ groups[g].val[1].file = groups[g].val[2].file
          /\ groups[g].val[2].file < groups[g].val[3].file

\* The category an entry is grouped under.
GroupNameOf(e) == IF e.category = <<>> THEN <<"Core">> ELSE e.category

\* The places of a grouped mapping: <<g, j>> is the j-th entry of the g-th group.
Places(d) == UNION {{<<g, j>> : j \in 1..Len(d[g].val)} : g \in 1..Len(d)}

IsDeclared(key) == \E k \in 1..Len(CATEGORY_ORDER) : CATEGORY_ORDER[k] = key

\* C4: every scanned entry is in exactly one place of the grouped mapping, in
\* the group named by its category ("Core" when it has none, a new group when
\* the name is outside the taxonomy); no group is empty and no name is used
\* twice; so the group sizes add up to the number of entries.
C4_EveryEntryInOneGroup ==
    AfterGroup =>
        /\ \A k \in 1..Len(entries) :
              /\ Cardinality({pl \in Places(groups) :
                                 groups[pl[1]].val[pl[2]] = entries[k]}) = 1
              /\ \A pl \in Places(groups) :
                    groups[pl[1]].val[pl[2]] = entries[k]
                        => groups[pl[1]].key = GroupNameOf(entries[k])
        /\ \A g \in 1..Len(groups) : groups[g].val # <<>>
        /\ \A g, h \in 1..Len(groups) : groups[g].key = groups[h].key => g = h
        /\ Cardinality(Places(groups)) = Len(entries)

\* Entries without a category, with a taxonomy category and with a category
\* outside the taxonomy, grouped.
C4_Witness ==
    /\ pc = "grouped"
    /\ Len(entries) >= 3
    /\ \E k \in 1..Len(entries) : entries[k].category = <<>>
    /\ \E k \in 1..Len(entries) : ~IsDeclared(GroupNameOf(entries[k]))
    /\ \E k \in 1..Len(entries) : entries[k].category = <<"Math">>

TaxonomyRank(key) == CHOOSE k \in 1..Len(CATEGORY_ORDER) : CATEGORY_ORDER[k] = key

FirstSeen(key) ==
    CHOOSE k \in 1..Len(entries) :
        /\ GroupNameOf(entries[k]) = key
        /\ \A m \in 1..(k - 1) : GroupNameOf(entries[m]) # key

\* C5: the groups are in the taxonomy's flattened order, whatever the scan
\* order; the categories outside the taxonomy follow all taxonomy categories,
\* in the order of their first entry.
C5_GroupsFollowTaxonomyOrder ==
    AfterGroup =>
        \A g, h \in 1..Len(groups) :
            g < h =>
                LET a == groups[g].key
                    b == groups[h].key
                IN  IF IsDeclared(a) /\ IsDeclared(b) THEN TaxonomyRank(a) < TaxonomyRank(b)
                    ELSE IF ~IsDeclared(a) /\ ~IsDeclared(b) THEN FirstSeen(a) < FirstSeen(b)
                    ELSE IsDeclared(a)

\* Four groups: two taxonomy categories scanned in the reverse of their
\* taxonomy order, and two categories outside the taxonomy.
C5_Witness ==
    /\ pc = "grouped"
    /\ Len(groups) = 4
    /\ IsDeclared(groups[1].key) /\ IsDeclared(groups[2].key)
    /\ FirstSeen(groups[2].key) < FirstSeen(groups[1].key)
    /\ ~IsDeclared(groups[3].key) /\ ~IsDeclared(groups[4].key)

\* The cards of a document.
CardCount(doc) ==
    Cardinality(UNION {{<<c, j>> : j \in 1..Len(doc.content[c].cards)} :
                          c \in 1..Len(doc.content)})

\* C6: the footer's entry count is the sum of the sizes of all groups passed to
\* generate_html and its category count the number of groups, rendered or not;
\* generate_html returns these two values.
C6_FooterCountsGroupedInput ==
    pc = "done" =>
        /\ html.total_entries = Cardinality(Places(groups))
        /\ html.total_categories = Len(groups)
        /\ totals = <<Cardinality(Places(groups)), Len(groups)>>

\* A document whose footer counts more entries than it shows cards.
C6_Witness ==
    /\ pc = "done"
    /\ \E g \in 1..Len(groups) : ~IsDeclared(groups[g].key)
    /\ \E g \in 1..Len(groups) : IsDeclared(groups[g].key)
    /\ CardCount(html) < html.total_entries

\* No file that can be read holds a tag line.
NoTagLineInSource ==
    \/ ~src_dir.exists
    \/ \A f \in DOMAIN src_dir.files :
          \/ ~src_dir.files[f].readable
          \/ \A k \in 1..Len(Split(src_dir.files[f].text)) :
                ~IsTagLine(Split(src_dir.files[f].text)[k])

\* C7: with a source directory that is missing, empty or without a tag line,
\* the scan ends with no entry and the grouping with no category, the run is
\* aborted by nothing but an output that cannot be written, and the document
\* is the empty-state placeholder without sidebar section or card; the
\* placeholder is rendered exactly when the grouped input has no category.
C7_EmptyInputRendersPlaceholder ==
    /\ (AfterScan /\ NoTagLineInSource) => entries = <<>>
    /\ (AfterGroup /\ NoTagLineInSource) => groups = <<>>
    /\ pc = "aborted" => ~writable
    /\ pc = "done" =>
          /\ html.empty_state <=> groups = <<>>
          /\ NoTagLineInSource => html.empty_state
          /\ html.empty_state => html.sidebar = <<>> /\ html.content = <<>>

\* The document generated for a missing source directory.
C7_Witness ==
    /\ pc = "done"
    /\ ~src_dir.exists
    /\ html.empty_state
    /\ warnings # <<>>

\* The entries of the readable files among names, in ascending order of name.
RECURSIVE EntriesOfReadable(_)
EntriesOfReadable(names) ==
    IF names = {} THEN <<>>
    ELSE LET f == CHOOSE x \in names : \A y \in names : x <= y
         IN  (IF src_dir.files[f].readable
              THEN WithIdentity(parse_doc_blocks(src_dir.files[f].text), f)
              ELSE <<>>)
             \o EntriesOfReadable(names \ {f})

\* C8: whatever files cannot be read, the scan is not aborted (the run aborts
\* only on an output that cannot be written, and every file the loop turns to
\* is either read or skipped) and it returns the entries of the readable files,
\* concatenated in lexical file order.
C8_UnreadableFilesSkipped ==
    /\ pc = "aborted" => ~writable
    /\ pc = "scanning" =>
          /\ file_idx <= Len(c_files)
          /\ \A k \in 1..Len(c_files) : c_files[k] \in DOMAIN src_dir.files
    /\ pc = "scanning" =>
          entries = EntriesOfReadable({c_files[k] : k \in 1..file_idx})
    /\ (AfterScan /\ src_dir.exists) =>
          entries = EntriesOfReadable(DOMAIN src_dir.files)

\* A finished scan that skipped a first file holding a doc block and kept the
\* entries of a later file.
C8_Witness ==
    /\ pc = "scanned"
    /\ src_dir.exists
    /\ DOMAIN src_dir.files = {1, 2}
    /\ ~src_dir.files[1].readable
    /\ src_dir.files[1].text = TextMath
    /\ src_dir.files[2].readable
    /\ Len(entries) = 2
    /\ warnings = <<1>>

---------------------------------------------------------------------------
(* Claims about make_anchor and format_signature_html.                     *)

\* The symbols of the model's alphabets that are characters of [a-z0-9_-].
AnchorOutputSyms == {"a", "t", "f", "g", "x", "d", "0", "_", "-"}

\* C9: make_anchor gives a text made of [a-z0-9_-] only, without a leading or
\* trailing "-", and applied to its own result it gives that result again.
C9_AnchorSafeAndIdempotent ==
    /\ pc \in {"anchored", "anchored_twice"} =>
          /\ \A k \in 1..Len(anchor_out) : anchor_out[k] \in AnchorOutputSyms
          /\ anchor_out # <<>> => anchor_out[1] # "-" /\ anchor_out[Len(anchor_out)] # "-"
    /\ pc = "anchored_twice" => anchor_again = anchor_out

\* make_anchor applied twice to a name with dashes at both ends, an upper-case
\* letter and an unsafe character inside.
C9_Witness ==
    /\ pc = "anchored_twice"
    /\ Len(anchor_in) = 4
    /\ anchor_in[1] = "-" /\ anchor_in[4] = "-"
    /\ anchor_in[2] = "A" /\ anchor_in[3] = " "
    /\ anchor_out = <<"a">>

\* The text has the shape  name ( params ) [-> returnType] : a non-empty name
\* of word characters, ":" and ".", optional blanks, "(", any params, ")",
\* optional blanks, and then nothing or an arrow followed by a non-empty rest.
HasSignatureShape(s) ==
    \E n \in 1..Len(s), p \in 1..Len(s), q \in 1..Len(s), t \in 1..Len(s) :
        /\ n < p /\ p < q /\ q <= t
        /\ \A k \in 1..n : s[k] \in WordSyms \cup {":", "."}
        /\ \A k \in (n + 1)..(p - 1) : s[k] = " "
        /\ s[p] = "("
        /\ s[q] = ")"
        /\ \A k \in (q + 1)..t : s[k] = " "
        /\ (t = Len(s) \/ (s[t + 1] = "->" /\ t + 1 < Len(s)))

SpanClasses == {"fn", "text", "op", "typ", ""}

\* C10: format_signature_html gives a result for every signature (a non-empty
\* sequence of spans, so the entry's card is rendered); for a signature that
\* has not the shape it is the single span holding the escaped signature, and
\* for one that has the shape it is the name span followed by "(".
C10_MalformedSignatureVerbatim ==
    pc = "sig_done" =>
        /\ Len(card.sig_html) >= 1
        /\ \A k \in 1..Len(card.sig_html) :
              /\ card.sig_html[k].cls \in SpanClasses
              /\ DOMAIN card.sig_html[k].text = 1..Len(card.sig_html[k].text)
        /\ ~HasSignatureShape(sig) =>
              card.sig_html = <<[cls |-> "fn", text |-> escape(sig)]>>
        /\ HasSignatureShape(sig) =>
              /\ Len(card.sig_html) >= 3
              /\ card.sig_html[1].cls = "fn"
              /\ card.sig_html[2] = [cls |-> "text", text |-> <<"(">>]

\* The card of the malformed signature "f()->" (an arrow without a return
\* type), whose text escaping changes.
C10_Witness ==
    /\ pc = "sig_done"
    /\ ~HasSignatureShape(sig)
    /\ sig = <<"f", "(", ")", "->">>
    /\ card.sig_html[1].text # sig

---------------------------------------------------------------------------
(* Claims about the name of an entry.                                      *)

\* The text of s before its first "(", as it stands; s itself without one.
BeforeFirstParen(s) ==
    IF \E k \in 1..Len(s) : s[k] = "("
    THEN LET p == CHOOSE k \in 1..Len(s) :
                      s[k] = "(" /\ \A m \in 1..(k - 1) : s[m] # "("
         IN  [k \in 1..(p - 1) |-> s[k]]
    ELSE s

\* The text without the blanks at its two ends.
Trimmed(s) ==
    IF \A k \in 1..Len(s) : s[k] = " " THEN <<>>
    ELSE LET a == CHOOSE k \in 1..Len(s) : s[k] # " " /\ \A m \in 1..(k - 1) : s[m] = " "
             b == CHOOSE k \in 1..Len(s) : s[k] # " " /\ \A m \in (k + 1)..Len(s) : s[m] = " "
         IN  [k \in 1..(b - a + 1) |-> s[a + k - 1]]

---------------------------------------------------------------------------
(* Claims about the search filter.                                         *)

\* The text q occurs in the text s.
Occurs(q, s) ==
    \E a \in 0..(Len(s) - Len(q)) : \A k \in 1..Len(q) : s[a + k] = q[k]

\* The rendered groups: those of the declared categories, in group order.
RenderedGroups == SelectSeq(groups, LAMBDA item : IsDeclared(item.key))

\* The card j of block k has the class "hidden".
IsHidden(k, j) == "hidden" \in classes[k][j]

\* C12: whatever input events came before, with q the lower-cased, trimmed
\* value of the search field, a card is hidden exactly when q is not empty
\* and occurs neither in the lower-cased name nor in the lower-cased
\* description of its entry, and a category block is hidden exactly when all
\* its cards are; with an empty q every card and every block is shown.
C12_FilterFollowsLastQuery ==
    pc = "page" =>
        LET q == Trimmed(Lower(query))
        IN  /\ Len(classes) = Len(RenderedGroups)
            /\ Len(display) = Len(RenderedGroups)
            /\ \A k \in 1..Len(classes) :
                  /\ Len(classes[k]) = Len(RenderedGroups[k].val)
                  /\ \A j \in 1..Len(classes[k]) :
                        LET e == RenderedGroups[k].val[j]
                        IN  IsHidden(k, j) <=>
                                /\ q # <<>>
                                /\ ~Occurs(q, Lower(e.name))
                                /\ ~Occurs(q, Lower(e.description))
                  /\ display[k] \in {"", "none"}
                  /\ display[k] = "none" <=> \A j \in 1..Len(classes[k]) : IsHidden(k, j)

\* After some event has hidden a card, the query "A " (read as "a") shows
\* one block, whose card is named "A.f", and hides the other with its two cards.
C12_Witness ==
    /\ pc = "page"
    /\ ever_hidden
    /\ query = <<"A", " ">>
    /\ Len(display) = 2
    /\ display[1] = "none" /\ Len(classes[1]) = 2
    /\ display[2] = "" /\ ~IsHidden(2, 1)

---------------------------------------------------------------------------
(* Claims about the benchmark store.                                       *)

SameKey(r1, r2) == r1.commit_hash = r2.commit_hash /\ r1.benchmark = r2.benchmark

\* The step inserts a row; there is a row of its key, or there is none.
InsertStep == pc = "bench_loop" /\ pc' = "bench_loop" /\ b_idx' = b_idx + 1
                  /\ BENCHMARKS[b_idx + 1].name \in bench_files
KeyTaken ==
    \E r \in store \cup pending :
        r.commit_hash = commit /\ r.benchmark = BENCHMARKS[b_idx + 1].label

\* C13: in every step of every sequence of runs, the table and the open
\* transaction together hold at most one row per (commit, benchmark); a
\* committed row stays as it is; an insert whose key is taken changes no row
\* and adds one to skipped and nothing to inserted, and any other insert adds
\* one row and one to inserted and nothing to skipped.
C13_AtMostOnceInsert ==
    [][ /\ \A r1 \in store' \cup pending', r2 \in store' \cup pending' :
              SameKey(r1, r2) => r1 = r2
        /\ store \subseteq store'
        /\ (InsertStep /\ KeyTaken) =>
              /\ store' = store /\ pending' = pending
              /\ skipped' = skipped + 1 /\ inserted' = inserted
        /\ (InsertStep /\ ~KeyTaken) =>
              /\ store' = store
              /\ pending \subseteq pending'
              /\ Cardinality(pending') = Cardinality(pending) + 1
              /\ skipped' = skipped /\ inserted' = inserted + 1
      ]_vars

\* The second run at a commit has ended: the benchmark recorded by the first
\* run was skipped, a new one inserted, and the table holds one row of each.
C13_Witness ==
    /\ pc = "bench_idle"
    /\ runs = 2
    /\ inserted = 1
    /\ skipped = 1
    /\ Cardinality(store) = 2
    /\ \A r \in store : r.commit_hash = commit

---------------------------------------------------------------------------
(* Claims about the lines that start a block.                              *)

\* The tag lines of the file.
TagLines(ls) == {k \in 1..Len(ls) : IsTagLine(ls[k])}

\* The tag lines that no earlier tag line is joined to by marked lines only:
\* those the scan meets outside a block.
OpeningTagLines(ls) ==
    {k \in TagLines(ls) :
        ~\E t \in TagLines(ls) : t < k /\ \A m \in t..k : BeginsWithMarker(ls[m])}

\* C14 as stated: the parse holds as many entries as the file has tag lines.
C14_EveryTagLineStartsBlock ==
    pc = "done" => Len(entries) = Cardinality(TagLines(lines))

\* C14 amended: a tag line starts a new block when the scan meets it outside a
\* block, and only then; the parse holds as many entries as the file has
\* such lines, and while a block is read a tag line adds no entry.
C14_TagLineOutsideBlockStartsBlock ==
    /\ pc = "done" =>
          /\ Len(entries) = Cardinality(OpeningTagLines(lines))
          /\ \A j \in 1..Len(entries) : entries[j].kind \in {"builtin", "method"}
    /\ pc = "inner" =>
          /\ Len(entries) + 1 = Cardinality({k \in OpeningTagLines(lines) : k <= i})
          /\ \A k \in TagLines(lines) \ OpeningTagLines(lines) : Len(visits[k]) <= 1
    /\ pc = "outer" =>
          Len(entries) = Cardinality({k \in OpeningTagLines(lines) : k <= i})

\* A finished parse of a file whose second line is a tag line inside the
\* block of the first: one entry, the second tag line in its description.
C14_Witness ==
    /\ pc = "done"
    /\ Len(lines) >= 2
    /\ IsTagLine(lines[1])
    /\ IsTagLine(lines[2])
    /\ Len(entries) = 1
    /\ entries[1].description # <<>>

---------------------------------------------------------------------------
(* Claims about the categories outside the taxonomy.                       *)

\* The scanned entries whose category is outside the taxonomy, by position.
UndeclaredEntries == {k \in 1..Len(entries) : ~IsDeclared(GroupNameOf(entries[k]))}

\* The category titles the document shows: in its sidebar, in its content.
SidebarTitles(doc) ==
    UNION {{doc.sidebar[s].links[l].cat : l \in 1..Len(doc.sidebar[s].links)} :
              s \in 1..Len(doc.sidebar)}
ContentTitles(doc) == {doc.content[c].title : c \in 1..Len(doc.content)}

\* C15: an entry of a category outside the taxonomy is in the grouped mapping
\* and in the footer's count, and the document has no sidebar link and no
\* block for its category: the cards are the footer's entries less those of
\* undeclared categories, and when every group is undeclared the document
\* has no card, no sidebar section and no empty-state placeholder.
C15_UndeclaredCountedNotRendered ==
    pc = "done" =>
        /\ \A k \in UndeclaredEntries :
              /\ \E g \in 1..Len(groups) :
                    /\ groups[g].key = entries[k].category
                    /\ \E j \in 1..Len(groups[g].val) : groups[g].val[j] = entries[k]
              /\ escape(entries[k].category) \notin SidebarTitles(html) \cup ContentTitles(html)
        /\ html.total_entries = Len(entries)
        /\ CardCount(html) = html.total_entries - Cardinality(UndeclaredEntries)
        /\ (entries # <<>> /\ Cardinality(UndeclaredEntries) = Len(entries)) =>
              /\ html.content = <<>>
              /\ html.sidebar = <<>>
              /\ ~html.empty_state
              /\ html.total_categories >= 1

\* A document made from entries of an undeclared category only: a footer
\* that counts two entries in one category, and nothing rendered.
C15_Witness ==
    /\ pc = "done"
    /\ Len(entries) = 2
    /\ Cardinality(UndeclaredEntries) = 2
    /\ html.total_entries = 2
    /\ html.total_categories = 1
    /\ html.content = <<>>
    /\ ~html.empty_state

---------------------------------------------------------------------------
(* Claims about the params of a signature.                                 *)

FirstOpen(s) == CHOOSE p \in 1..Len(s) : s[p] = "(" /\ \A k \in 1..(p - 1) : s[k] # "("
LastClose(s) == CHOOSE q \in 1..Len(s) : s[q] = ")" /\ \A k \in (q + 1)..Len(s) : s[k] # ")"

\* After position q the text holds blanks only, or blanks, an arrow and at
\* least one more symbol.
ArrowClauseOrNothingAfter(s, q) ==
    \E t \in q..Len(s) :
        /\ \A k \in (q + 1)..t : s[k] = " "
        /\ (t = Len(s) \/ (s[t + 1] = "->" /\ t + 1 < Len(s)))

\* The first ")" after the first "(" that an arrow clause or nothing follows.
ShortestClose(s) ==
    CHOOSE q \in (FirstOpen(s) + 1)..Len(s) :
        /\ s[q] = ")" /\ ArrowClauseOrNothingAfter(s, q)
        /\ \A k \in (FirstOpen(s) + 1)..(q - 1) :
              ~(s[k] = ")" /\ ArrowClauseOrNothingAfter(s, k))

Between(s, p, q) == [k \in 1..(q - p - 1) |-> s[p + k]]

\* C16 as stated: for a signature of the shape, the params are the text
\* between its first "(" and its last ")".
C16_ParamsToLastParen ==
    (pc = "sig_done" /\ HasSignatureShape(sig)) =>
        /\ sig_match.matched
        /\ sig_match.params_raw = Between(sig, FirstOpen(sig), LastClose(sig))

\* C16 amended: for a signature of the shape, the params are the text between
\* its first "(" and the first ")" that is followed by nothing but blanks and
\* an optional arrow clause (the shortest match); that is the last ")" of the
\* signature exactly when no earlier ")" is followed so, and a signature
\* without the shape has no match.
C16_ParamsToFirstFittingParen ==
    pc = "sig_done" =>
        /\ sig_match.matched <=> HasSignatureShape(sig)
        /\ HasSignatureShape(sig) =>
              /\ sig_match.params_raw = Between(sig, FirstOpen(sig), ShortestClose(sig))
              /\ \A k \in 1..Len(sig_match.params_raw) :
                    sig_match.params_raw[k] = ")" =>
                        ~ArrowClauseOrNothingAfter(sig, FirstOpen(sig) + k)

\* The match of "f()->)": empty params, and the return type ")".
C16_Witness ==
    /\ pc = "sig_done"
    /\ sig = <<"f", "(", ")", "->", ")">>
    /\ sig_match.matched
    /\ sig_match.params_raw = <<>>
    /\ sig_match.ret_type = <<")">>

---------------------------------------------------------------------------
(* Claims about the termination of parse_doc_blocks.                       *)

InLoop == pc \in {"outer", "inner"}

\* What a step of the two loops does to the index and to the lines.
ScanStep ==
    /\ (InLoop /\ pc' \in {"outer", "inner", "done"}) => i' \in {i, i + 1}
    /\ (pc = "outer" /\ pc' # "done") => i' = i + 1
    /\ (pc = "inner" /\ pc' = "inner") => i' = i + 1
    /\ (InLoop /\ i' = i) => (visits' = visits /\ pc' # pc)
    /\ (InLoop /\ i' = i + 1) =>
          /\ Len(visits'[i + 1]) = Len(visits[i + 1]) + 1
          /\ \A k \in 1..Len(lines) : k # i + 1 => visits'[k] = visits[k]

\* The lines taken so far are those before the index, each taken once, and
\* the lines of one block are consecutive.
TakenOnce ==
    InLoop \/ pc = "done" =>
        /\ i \in 0..Len(lines)
        /\ \A k \in 1..Len(lines) : Len(visits[k]) = (IF k <= i THEN 1 ELSE 0)
        /\ \A k \in 1..i : visits[k][1] \in 0..(Len(entries) + 1)
        /\ \A k \in 1..i, m \in 1..i :
              (k < m /\ visits[k][1] = visits[m][1] /\ visits[k][1] # 0) =>
                  \A n \in k..m : visits[n][1] = visits[k][1]

\* The statements left to run are bounded by this number: twice the lines
\* not yet taken, and one or two more for the loop the function is in.
Variant ==
    CASE pc = "call"  -> 2 * Len(Split(source_text)) + 2
      [] pc = "outer" -> 2 * (Len(lines) - i) + 1
      [] pc = "inner" -> 2 * (Len(lines) - i) + 2
      [] OTHER        -> 0

\* C17: on every file parse_doc_blocks returns, every step bringing a
\* natural number down that is 0 at the return only; every iteration of the
\* outer loop and every iteration of the inner loop that takes a line moves
\* the index forward by one, the step that leaves the inner loop keeps it on
\* the line that ended the block, and no step moves it back; on return the
\* index is the number of lines and each line was taken exactly once, as a
\* line outside a block or as a line of exactly one block.
C17_ParseTerminates ==
    /\ [][ScanStep /\ Variant' < Variant /\ Variant' >= 0]_vars
    /\ [](TakenOnce /\ (Variant = 0 <=> pc = "done") /\ (pc = "done" => i = Len(lines)))

\* A finished parse of four lines: a block, the unmarked line that ended it
\* (looked at by the inner loop, taken by the outer loop), and a second block.
C17_Witness ==
    /\ pc = "done"
    /\ Len(lines) = 4
    /\ i = 4
    /\ visits[1] = <<1>>
    /\ visits[2] = <<1>>
    /\ visits[3] = <<0>>
    /\ visits[4] = <<2>>

====
